---- MODULE Spec2Model ----
(***************************************************************************)
(* Model of the Express/Mongoose backend of the project-management tool:   *)
(* the User, Project and Task collections and the request handlers of      *)
(* projectController.js (project and task handlers) and of the user        *)
(* controller (src/unnamed/part_002).  A handler is a sequence of          *)
(* segments, one per awaited database call; a request is served either in  *)
(* one step or suspended at an await while another request is served.      *)
(***************************************************************************)
EXTENDS Integers, Sequences, FiniteSets, TLC

\* ---------------------------------------------------------------- bounds
MaxUsers    == 3   \* user ids 1..MaxUsers
MaxProjects == 2   \* projects ever created
MaxTasks    == 2   \* tasks ever created
MaxSteps    == 1   \* requests served after the seeded history
MaxComments == 2   \* comments on one task
MaxTime     == 2   \* dueDates and clock readings 1..MaxTime
MaxUpdates  == 2   \* requests to the task routes between reads of isOverdue

UserIds    == 1..MaxUsers
ProjectIds == 1..MaxProjects
TaskIds    == 1..MaxTasks

NoUser == 0        \* an absent user reference (undefined / unset)
NoId   == NoUser   \* a request without that parameter
NoDate == NoUser   \* a task without dueDate

\* ------------------------------------------------------- schema constants
Roles        == {"admin", "manager", "member"}
MemberRoles  == {"manager", "member"}
Statuses     == {"todo", "inprogress", "review", "done"}
DefaultSettings ==
  [allowMemberTaskCreation |-> TRUE, allowMemberTaskAssignment |-> FALSE]
SettingsValues ==
  [allowMemberTaskCreation : BOOLEAN, allowMemberTaskAssignment : BOOLEAN]

VARIABLES
  users,        \* User collection: id -> [role, isActive]
  projects,     \* Project collection: id -> [owner, members, settings, name, v]
  tasks,        \* Task collection: id -> [project, status, assignee, ...]
  nextProject,  \* number of project ids handed out (ids are never reused)
  nextTask,     \* number of task ids handed out
  last,         \* the last request and the response it got
  steps,        \* number of requests served
  pending,      \* the request suspended at an await, with its locals
  app           \* the Express application: its middleware stack

vars ==
  <<users, projects, tasks, nextProject, nextTask, last, steps, pending, app>>
data == <<users, projects, tasks, nextProject, nextTask>>

\* ---------------------------------------------------------------- helpers
Restrict(f, S) == [x \in S |-> f[x]]

Range(s) == {s[i] : i \in 1..Len(s)}

RECURSIVE SelectSeqBy(_, _)
\* Array.prototype.filter(m => m.user !== u) / $pull {user: u}
SelectSeqBy(s, u) ==
  IF s = <<>> THEN <<>>
  ELSE IF Head(s).user = u THEN SelectSeqBy(Tail(s), u)
       ELSE <<Head(s)>> \o SelectSeqBy(Tail(s), u)

MemberEntries == [user : UserIds, role : MemberRoles]

\* the members arrays of request bodies: none, one entry, one entry twice
MemberLists ==
  {<<>>} \cup {<<e>> : e \in MemberEntries}
    \cup {<<e, e>> : e \in MemberEntries}

\* members.some(m => m.user.toString() === id)
someMember(project, id) ==
  \E i \in 1..Len(project.members) : project.members[i].user = id

\* members.some(m => m.user.toString() === id && m.role === 'manager')
someManager(project, id) ==
  \E i \in 1..Len(project.members) :
    /\ project.members[i].user = id
    /\ project.members[i].role = "manager"

\* the request's authenticated user: req.user.id, req.user.role
Authenticated(a) == a \in DOMAIN users
\* the users that can send the next request; while a request is suspended
\* one other request is served
Actors ==
  IF steps < MaxSteps /\ (pending.op = "none" \/ steps = 0)
  THEN DOMAIN users ELSE {}
roleOf(a) == users[a].role

\* ------------------------------------------- requests, locals and outcomes
\* A request body: the key it carries and the value of that key; "" and
\* NoUser are the falsy values of absent keys.
Body(key, owner, members, settings, status, assignee) ==
  [key |-> key, owner |-> owner, members |-> members, settings |-> settings,
   status |-> status, assignee |-> assignee]

NoBody == Body("", NoUser, <<>>, DefaultSettings, "", NoUser)

\* a request as the router hands it to the handler
Req(op, a, target, arg, val, body) ==
  [op |-> op, actor |-> a, target |-> target, arg |-> arg, val |-> val,
   body |-> body]

\* the last request and its response; result: the ids of the documents a
\* list request returns or a create request made
Request(op, a, target, arg, val, code) ==
  [op |-> op, actor |-> a, target |-> target, arg |-> arg, val |-> val,
   body |-> NoBody, code |-> code, result |-> {}]

\* the routers on their own, without the stack of server.js around them
NoServer == [stack |-> <<>>, db |-> "none"]

\* a handler that runs from its first line to its response
Respond(r) ==
  /\ steps' = steps + 1
  /\ last' = r
  /\ UNCHANGED <<pending, app>>

\* -------------------------------------------------------------------- Init
\* The database after some history of requests.  User 1 is the default
\* admin of createDefaultAdmin; the other accounts have the default role.
SeedUsers ==
  [u \in UserIds |->
     [role |-> IF u = 1 THEN "admin" ELSE "member", isActive |-> TRUE]]

\* v is the version key __v: the number of saves that changed the members
\* array (push by addMember, replacement by removeMember)
SeedProject(owner, members, settings, v) ==
  [owner |-> owner, members |-> members, settings |-> settings, name |-> 0,
   v |-> v]

SeedTask(project, status, assignee, createdBy) ==
  [project |-> project, status |-> status, assignee |-> assignee,
   createdBy |-> createdBy, title |-> 0, comments |-> <<>>,
   dueDate |-> NoDate]

\* the database right after startup and registration: accounts only
SeedFresh ==
  /\ users = SeedUsers
  /\ projects = << >>
  /\ tasks = << >>
  /\ nextProject = 0
  /\ nextTask = 0

\* user 2 created project 1 and added 3 as member; user 3 created project
\* 2; member 3 created task 1 of project 1 for themselves and moved it to
\* review; user 3 created task 2 in project 2
SeedA ==
  /\ users = SeedUsers
  /\ projects =
       [p \in {1, 2} |->
          IF p = 1
          THEN SeedProject(2, <<[user |-> 3, role |-> "member"]>>,
                           DefaultSettings, 1)
          ELSE SeedProject(3, <<>>, DefaultSettings, 0)]
  /\ tasks =
       [t \in {1, 2} |->
          IF t = 1 THEN SeedTask(1, "review", 3, 3)
          ELSE SeedTask(2, "todo", NoUser, 3)]
  /\ nextProject = 2
  /\ nextTask = 2

\* project 1 and task 1 as in SeedA; then the owner switched
\* allowMemberTaskCreation off
SeedC ==
  /\ users = SeedUsers
  /\ projects =
       [p \in {1} |->
          SeedProject(2, <<[user |-> 3, role |-> "member"]>>,
                      [allowMemberTaskCreation |-> FALSE,
                       allowMemberTaskAssignment |-> FALSE], 1)]
  /\ tasks = [t \in {1} |-> SeedTask(1, "review", 3, 3)]
  /\ nextProject = 1
  /\ nextTask = 1

\* user 2 created project 1, added 3 as manager and created task 1 for
\* themselves; the manager commented on the task; the owner moved it to
\* some status
SeedM ==
  /\ users = SeedUsers
  /\ projects =
       [p \in {1} |->
          SeedProject(2, <<[user |-> 3, role |-> "manager"]>>,
                      DefaultSettings, 1)]
  /\ \E st \in Statuses :
       tasks =
         [t \in {1} |->
            [SeedTask(1, st, 2, 2)
               EXCEPT !.comments = <<[user |-> 3, text |-> "x"]>>]]
  /\ nextProject = 1
  /\ nextTask = 1

\* project 1 and task 1 as in SeedA; the admin deleted user 3 (which pulled
\* 3 from the members and cleared the assignee); then the owner PUT the old
\* members list back
SeedD ==
  /\ users = Restrict(SeedUsers, UserIds \ {3})
  /\ projects =
       [p \in {1} |->
          SeedProject(2, <<[user |-> 3, role |-> "member"]>>,
                      DefaultSettings, 1)]
  /\ tasks = [t \in {1} |-> SeedTask(1, "review", NoUser, 3)]
  /\ nextProject = 1
  /\ nextTask = 1

\* accounts only; the default admin gave user 2 the role admin
SeedP ==
  /\ users = [SeedUsers EXCEPT ![2].role = "admin"]
  /\ projects = << >>
  /\ tasks = << >>
  /\ nextProject = 0
  /\ nextTask = 0

\* user 2 created project 1 and added 3 as member; member 3 created task 1
\* for themselves and moved it to review; then the owner removed 3 from the
\* project (removeMember leaves the tasks alone)
SeedR ==
  /\ users = SeedUsers
  /\ projects = [p \in {1} |-> SeedProject(2, <<>>, DefaultSettings, 2)]
  /\ tasks = [t \in {1} |-> SeedTask(1, "review", 3, 3)]
  /\ nextProject = 1
  /\ nextTask = 1

\* locals that are not assigned yet
NoProject == SeedProject(NoUser, <<>>, DefaultSettings, 0)
NoTask    == SeedTask(NoId, "", NoUser, NoUser)
NoUserDoc == [role |-> "", isActive |-> TRUE]

\* The locals of a handler: req.user.role as the auth middleware read it,
\* the project, task and user documents the handler fetched, and the ids a
\* list query returned.
Locals(role) ==
  [role |-> role, project |-> NoProject, task |-> NoTask, user |-> NoUserDoc,
   ids |-> {}]

\* no request is suspended
NoRequest ==
  [op |-> "none", actor |-> NoUser, target |-> NoId, arg |-> NoId,
   val |-> "", body |-> NoBody, pc |-> 0, loc |-> Locals(""),
   wrote |-> FALSE]

\* the collections and the id counters as one value
DB ==
  [users |-> users, projects |-> projects, tasks |-> tasks,
   nextProject |-> nextProject, nextTask |-> nextTask]

SetDB(db) ==
  /\ users' = db.users
  /\ projects' = db.projects
  /\ tasks' = db.tasks
  /\ nextProject' = db.nextProject
  /\ nextTask' = db.nextTask

\* The outcome of one segment of a handler (an awaited call and the
\* synchronous code up to the next await): the handler goes on with segment
\* pc (code 0) or has sent the response with status code.
Cont(pc, loc, db)   == [pc |-> pc, loc |-> loc, db |-> db, code |-> 0]
Done(loc, db, code) == [pc |-> 0, loc |-> loc, db |-> db, code |-> code]

Init ==
  /\ SeedFresh \/ SeedA \/ SeedC \/ SeedM \/ SeedD \/ SeedP \/ SeedR
  /\ last = Request("none", NoUser, NoId, NoId, "", 0)
  /\ steps = 0
  /\ pending = NoRequest
  /\ app = NoServer

\* ------------------------------------------------------- project handlers
\* A code operator gives the status a check answers with, or 0 when the
\* handler goes on.  ps, ts, us are the Project, Task and User collections
\* as the awaited call finds them.

\* getProject that decides on access before it looks the project up
getProjectCode_accessFirst(a, role, ps, p) ==
  IF /\ role # "admin"
     /\ ~(p \in DOMAIN ps /\ (ps[p].owner = a \/ someMember(ps[p], a)))
  THEN 403
  ELSE IF p \notin DOMAIN ps THEN 404
  ELSE 0

\* Project.findById(req.params.id); if (!project) 404
getProjectCode(a, role, ps, p) ==
  IF p \notin DOMAIN ps THEN 404 ELSE 0

\* populate('owner') / populate('members.user') leave null where the
\* referenced user does not exist; m.user._id then throws (caught: 500).
\* found: the referenced users the populate queries found.
getProjectThrows(project, a, found) ==
  \/ project.owner \notin found
  \/ /\ project.owner # a
     /\ \E i \in 1..Len(project.members) :
          /\ project.members[i].user \notin found
          /\ \A j \in 1..(i - 1) : project.members[j].user # a

\* hasAccess of getProject, on the populated document
getProjectAccess(a, role, project, found) ==
  IF getProjectThrows(project, a, found) THEN 500
  ELSE IF \/ project.owner = a
          \/ someMember(project, a)
          \/ role = "admin"
       THEN 0
       ELSE 403

getProjectSeg(r, pc, loc, db) ==
  CASE pc = 1 ->
         LET code == getProjectCode(r.actor, loc.role, db.projects, r.target)
         IN IF code # 0 THEN {Done(loc, db, code)}
            ELSE {Cont(2, [loc EXCEPT !.project = db.projects[r.target]], db)}
    [] pc = 2 ->
         LET code == getProjectAccess(r.actor, loc.role, loc.project,
                                      DOMAIN db.users)
         IN IF code # 0 THEN {Done(loc, db, code)} ELSE {Cont(3, loc, db)}
    [] OTHER -> {Done(loc, db, 200)}    \* Task.find: the statistics

\* Project.create; Project.findById(project._id).populate('owner')
createProjectSeg(r, pc, loc, db) ==
  CASE pc = 1 ->
         LET id == db.nextProject + 1 IN
         {Cont(2, [loc EXCEPT !.ids = {id}],
               [db EXCEPT
                  !.nextProject = id,
                  !.projects =
                    [p \in DOMAIN db.projects \cup {id} |->
                       IF p = id
                       THEN [owner |-> r.actor, members |-> <<>>,
                             settings |-> DefaultSettings, name |-> 0,
                             v |-> 0]
                       ELSE db.projects[p]]])}
    [] OTHER -> {Done(loc, db, 201)}

\* owner or admin may update / delete / manage members
ownerOrAdmin(project, a, role) ==
  project.owner = a \/ role = "admin"

\* A request body of PUT /api/projects/:id carries one key; "$set" is the
\* update operator with the owner inside: { "$set": { "owner": u } }.
ProjectUpdates ==
  {Body("name", NoUser, <<>>, DefaultSettings, "", NoUser)}
  \cup {Body(k, u, <<>>, DefaultSettings, "", NoUser) :
          k \in {"owner", "$set"}, u \in UserIds}
  \cup {Body("members", NoUser, ms, DefaultSettings, "", NoUser) :
          ms \in MemberLists}
  \cup {Body("settings", NoUser, <<>>, s, "", NoUser) : s \in SettingsValues}

\* delete updates.owner; findByIdAndUpdate(id, updates): the top-level
\* owner key is gone, an update operator is applied as it stands
applyProjectUpdates(project, updates) ==
  IF updates.key = "members" THEN [project EXCEPT !.members = updates.members]
  ELSE IF updates.key = "$set" THEN [project EXCEPT !.owner = updates.owner]
  ELSE IF updates.key = "settings"
       THEN [project EXCEPT !.settings = updates.settings]
  ELSE IF updates.key = "name" THEN [project EXCEPT !.name = 1]
  ELSE project

\* updateProject that also lets a member with role manager through
updateProjectCode_managerAllowed(a, role, ps, p) ==
  IF p \notin DOMAIN ps THEN 404
  ELSE IF ~ownerOrAdmin(ps[p], a, role) /\ ~someManager(ps[p], a) THEN 403
  ELSE 0

updateProjectCode(a, role, ps, p) ==
  IF p \notin DOMAIN ps THEN 404
  ELSE IF ~ownerOrAdmin(ps[p], a, role) THEN 403
  ELSE 0

\* findByIdAndUpdate returns null for a document that is gone: 200, data null
updateProjectSeg(r, pc, loc, db) ==
  CASE pc = 1 ->
         LET code == updateProjectCode(r.actor, loc.role, db.projects,
                                       r.target)
         IN IF code # 0 THEN {Done(loc, db, code)}
            ELSE {Cont(2, [loc EXCEPT !.project = db.projects[r.target]], db)}
    [] OTHER ->
         {Done(loc,
               IF r.target \in DOMAIN db.projects
               THEN [db EXCEPT !.projects[r.target] =
                                 applyProjectUpdates(@, r.body)]
               ELSE db,
               200)}

deleteProjectCode(a, role, ps, p) ==
  IF p \notin DOMAIN ps THEN 404
  ELSE IF ~ownerOrAdmin(ps[p], a, role) THEN 403
  ELSE 0

\* Task.deleteMany({ project: project._id })
tasksAfterDeleteProject(ts, p) ==
  Restrict(ts, {t \in DOMAIN ts : ts[t].project # p})

deleteProjectSeg(r, pc, loc, db) ==
  CASE pc = 1 ->
         LET code == deleteProjectCode(r.actor, loc.role, db.projects,
                                       r.target)
         IN IF code # 0 THEN {Done(loc, db, code)}
            ELSE {Cont(2, [loc EXCEPT !.project = db.projects[r.target]], db)}
    [] pc = 2 ->
         {Cont(3, loc,
               [db EXCEPT !.tasks = tasksAfterDeleteProject(@, r.target)])}
    [] OTHER ->                                   \* project.deleteOne()
         {Done(loc,
               [db EXCEPT !.projects = Restrict(@, DOMAIN @ \ {r.target})],
               200)}

addMemberCode(a, role, ps, p) ==
  IF p \notin DOMAIN ps THEN 404
  ELSE IF ~ownerOrAdmin(ps[p], a, role) THEN 403
  ELSE 0

\* User.findById(userId); isAlreadyMember on the project document in hand
addMemberUserCode(us, project, userId) ==
  IF userId \notin DOMAIN us THEN 404
  ELSE IF someMember(project, userId) \/ project.owner = userId THEN 400
  ELSE 0

\* project.members.push(entry); project.save(): the save sends $push and
\* $inc __v with no version test, so the entry is appended to the stored
\* array
pushMember(ps, p, entry) ==
  [ps EXCEPT ![p].members = Append(@, entry), ![p].v = @ + 1]

\* addMember that pushes and saves before the "already a member" check
addMemberSeg_pushBeforeCheck(r, pc, loc, db) ==
  CASE pc = 1 ->
         LET code == addMemberCode(r.actor, loc.role, db.projects, r.target)
         IN IF code # 0 THEN {Done(loc, db, code)}
            ELSE {Cont(2, [loc EXCEPT !.project = db.projects[r.target]], db)}
    [] pc = 2 ->
         LET code == addMemberUserCode(db.users, loc.project, r.arg)
             saved == IF r.target \in DOMAIN db.projects
                      THEN [db EXCEPT !.projects =
                              pushMember(@, r.target,
                                         [user |-> r.arg, role |-> r.val])]
                      ELSE db
         IN IF code # 0 THEN {Done(loc, saved, code)} ELSE {Cont(4, loc, saved)}
    [] OTHER ->
         {Done(loc, db, IF r.target \in DOMAIN db.projects THEN 200 ELSE 500)}

addMemberSeg(r, pc, loc, db) ==
  CASE pc = 1 ->
         LET code == addMemberCode(r.actor, loc.role, db.projects, r.target)
         IN IF code # 0 THEN {Done(loc, db, code)}
            ELSE {Cont(2, [loc EXCEPT !.project = db.projects[r.target]], db)}
    [] pc = 2 ->
         LET code == addMemberUserCode(db.users, loc.project, r.arg)
         IN IF code # 0 THEN {Done(loc, db, code)} ELSE {Cont(3, loc, db)}
    [] pc = 3 ->                                  \* project.save()
         IF r.target \in DOMAIN db.projects
         THEN {Cont(4, loc,
                    [db EXCEPT !.projects =
                       pushMember(@, r.target,
                                  [user |-> r.arg, role |-> r.val])])}
         ELSE {Done(loc, db, 500)}
    [] OTHER ->      \* Project.findById(project._id); updatedProject.members
         {Done(loc, db, IF r.target \in DOMAIN db.projects THEN 200 ELSE 500)}

\* removeMember without the "Cannot remove owner" check
removeMemberCode_noOwnerCheck(a, role, ps, p, memberId) ==
  IF p \notin DOMAIN ps THEN 404
  ELSE IF ~ownerOrAdmin(ps[p], a, role) THEN 403
  ELSE 0

removeMemberCode(a, role, ps, p, memberId) ==
  IF p \notin DOMAIN ps THEN 404
  ELSE IF ~ownerOrAdmin(ps[p], a, role) THEN 403
  ELSE IF ps[p].owner = memberId THEN 400
  ELSE 0

\* A save() that finds its document gone writes nothing; depending on the
\* mongoose release it resolves or rejects (DocumentNotFoundError, caught:
\* 500), also when no path was modified.
saveOfMissing(loc, db) == {Done(loc, db, 200), Done(loc, db, 500)}

\* project.members = project.members.filter(...); project.save().  When the
\* filter removed nothing the path is not modified and save sends nothing.
\* Otherwise save sends $set members with the test __v = the version
\* loaded, and $inc __v: the filtered copy of the array in hand replaces
\* the stored array, or no document matches (VersionError, caught: 500).
removeMemberSeg(r, pc, loc, db) ==
  CASE pc = 1 ->
         LET code == removeMemberCode(r.actor, loc.role, db.projects,
                                      r.target, r.arg)
         IN IF code # 0 THEN {Done(loc, db, code)}
            ELSE {Cont(2, [loc EXCEPT !.project = db.projects[r.target]], db)}
    [] OTHER ->
         LET filtered == SelectSeqBy(loc.project.members, r.arg) IN
         IF filtered = loc.project.members
         THEN IF r.target \in DOMAIN db.projects THEN {Done(loc, db, 200)}
              ELSE saveOfMissing(loc, db)
         ELSE IF /\ r.target \in DOMAIN db.projects
                 /\ db.projects[r.target].v = loc.project.v
         THEN {Done(loc,
                    [db EXCEPT !.projects[r.target].members = filtered,
                               !.projects[r.target].v = @ + 1],
                    200)}
         ELSE {Done(loc, db, 500)}


\* ---------------------------------------------------------- task handlers

\* roleMiddleware canManageTasks (exported, mounted on no route)
canManageTasks(project, a, role, method) ==
  \/ role = "admin"
  \/ project.owner = a
  \/ someManager(project, a)
  \/ /\ method = "POST"
     /\ project.settings.allowMemberTaskCreation
     /\ someMember(project, a)

\* roleMiddleware canAssignTasks (exported, mounted on no route)
canAssignTasks(project, a, role) ==
  \/ role = "admin"
  \/ project.owner = a
  \/ someManager(project, a)
  \/ /\ project.settings.allowMemberTaskAssignment
     /\ someMember(project, a)

\* roleMiddleware canUpdateTaskStatus (exported, mounted on no route)
canUpdateTaskStatus(project, task, a, role) ==
  \/ role = "admin"
  \/ project.owner = a
  \/ someManager(project, a)
  \/ task.assignee = a

\* roleMiddleware canDeleteTask (exported, mounted on no route)
canDeleteTask(project, task, a, role) ==
  \/ role = "admin"
  \/ project.owner = a
  \/ task.createdBy = a

\* POST /api/tasks: router.use(protect); .post(createTask)
createTaskCode(a, role, ps, p, assignee) ==
  IF p \notin DOMAIN ps THEN 404
  ELSE IF ~(\/ ps[p].owner = a
            \/ someMember(ps[p], a)
            \/ role = "admin")
       THEN 403
  ELSE IF /\ assignee # NoUser
          /\ ~(assignee = ps[p].owner \/ someMember(ps[p], assignee))
          /\ role # "admin"
       THEN 400
  ELSE 0

\* Task.create({..., project, assignee, createdBy: req.user.id,
\* status: 'todo'})
createdTask(p, assignee, a) ==
  [project |-> p, status |-> "todo", assignee |-> assignee, createdBy |-> a,
   title |-> 0, comments |-> <<>>, dueDate |-> NoDate]

insertTask(db, task) ==
  LET id == db.nextTask + 1 IN
  [db EXCEPT
     !.nextTask = id,
     !.tasks = [t \in DOMAIN db.tasks \cup {id} |->
                  IF t = id THEN task ELSE db.tasks[t]]]

createTaskSeg(r, pc, loc, db) ==
  CASE pc = 1 ->
         LET code == createTaskCode(r.actor, loc.role, db.projects, r.target,
                                    r.arg)
         IN IF code # 0 THEN {Done(loc, db, code)}
            ELSE {Cont(2, [loc EXCEPT !.project = db.projects[r.target]], db)}
    [] pc = 2 ->                                          \* Task.create
         {Cont(3, [loc EXCEPT !.ids = {db.nextTask + 1}],
               insertTask(db, createdTask(r.target, r.arg, r.actor)))}
    [] OTHER -> {Done(loc, db, 201)}       \* Task.findById(...).populate

\* A request body of PUT /api/tasks/:id carries one key.
TaskUpdates ==
  {Body("status", NoUser, <<>>, DefaultSettings, st, NoUser) :
     st \in Statuses \cup {"bogus"}}
  \cup {Body("assignee", NoUser, <<>>, DefaultSettings, "", u) : u \in UserIds}
  \cup {Body("title", NoUser, <<>>, DefaultSettings, "", NoUser)}

\* Project.findById(task.project) and the permission tests of updateTask;
\* project.owner of a project that is gone throws (caught: 500)
updateTaskCode(a, role, task, ps, body) ==
  IF task.project \notin DOMAIN ps THEN 500
  ELSE LET project        == ps[task.project]
           isProjectOwner == project.owner = a
           isTaskAssignee == task.assignee = a
           isAdmin        == role = "admin"
       IN IF body.status # "" /\ ~isProjectOwner /\ ~isTaskAssignee /\ ~isAdmin
          THEN 403
          ELSE IF body.assignee # NoUser /\ ~isProjectOwner /\ ~isAdmin
          THEN 403
          ELSE 0

\* updateTask whose update document also resets the comments
applyTaskUpdates_dropComments(task, body) ==
  IF body.key = "status"
  THEN [task EXCEPT !.status = body.status, !.comments = <<>>]
  ELSE IF body.key = "assignee"
  THEN [task EXCEPT !.assignee = body.assignee, !.comments = <<>>]
  ELSE [task EXCEPT !.title = 1, !.comments = <<>>]

applyTaskUpdates(task, body) ==
  IF body.key = "status" THEN [task EXCEPT !.status = body.status]
  ELSE IF body.key = "assignee" THEN [task EXCEPT !.assignee = body.assignee]
  ELSE [task EXCEPT !.title = 1]

updateTaskSeg(r, pc, loc, db) ==
  CASE pc = 1 ->
         IF r.target \notin DOMAIN db.tasks THEN {Done(loc, db, 404)}
         ELSE {Cont(2, [loc EXCEPT !.task = db.tasks[r.target]], db)}
    [] pc = 2 ->
         LET code == updateTaskCode(r.actor, loc.role, loc.task, db.projects,
                                    r.body)
         IN IF code # 0 THEN {Done(loc, db, code)}
            ELSE {Cont(3, [loc EXCEPT !.project =
                                        db.projects[loc.task.project]], db)}
    [] OTHER ->          \* findByIdAndUpdate(id, updates, {runValidators})
         IF r.body.status # "" /\ r.body.status \notin Statuses
         THEN {Done(loc, db, 500)}     \* the enum validator throws
         ELSE {Done(loc,
                    IF r.target \in DOMAIN db.tasks
                    THEN [db EXCEPT !.tasks[r.target] =
                                      applyTaskUpdates(@, r.body)]
                    ELSE db,
                    200)}

deleteTaskCode(a, role, task, ps) ==
  IF task.project \notin DOMAIN ps THEN 500
  ELSE IF ~ownerOrAdmin(ps[task.project], a, role) THEN 403
  ELSE 0

deleteTaskSeg(r, pc, loc, db) ==
  CASE pc = 1 ->
         IF r.target \notin DOMAIN db.tasks THEN {Done(loc, db, 404)}
         ELSE {Cont(2, [loc EXCEPT !.task = db.tasks[r.target]], db)}
    [] pc = 2 ->
         LET code == deleteTaskCode(r.actor, loc.role, loc.task, db.projects)
         IN IF code # 0 THEN {Done(loc, db, code)}
            ELSE {Cont(3, [loc EXCEPT !.project =
                                        db.projects[loc.task.project]], db)}
    [] OTHER ->                                      \* task.deleteOne()
         {Done(loc, [db EXCEPT !.tasks = Restrict(@, DOMAIN @ \ {r.target})],
               200)}

\* the position of a status in the workflow
statusRank(st) ==
  IF st = "todo" THEN 0
  ELSE IF st = "inprogress" THEN 1
  ELSE IF st = "review" THEN 2
  ELSE 3

\* updateTaskStatus that refuses to move a task backwards
updateTaskStatusCode_forwardOnly(a, role, task, ps, status) ==
  IF task.project \notin DOMAIN ps THEN 500
  ELSE IF /\ task.assignee # a
          /\ ps[task.project].owner # a
          /\ role # "admin"
       THEN 403
  ELSE IF statusRank(status) < statusRank(task.status) THEN 400
  ELSE 0

\* updateTaskStatus without the admin override
updateTaskStatusCode_noAdmin(a, role, task, ps, status) ==
  IF task.project \notin DOMAIN ps THEN 500
  ELSE IF /\ task.assignee # a
          /\ ps[task.project].owner # a
       THEN 403
  ELSE 0

\* Project.findById(task.project) and the permission test
updateTaskStatusCode(a, role, task, ps, status) ==
  IF task.project \notin DOMAIN ps THEN 500
  ELSE IF /\ task.assignee # a
          /\ ps[task.project].owner # a
          /\ role # "admin"
       THEN 403
  ELSE 0

updateTaskStatusSeg(r, pc, loc, db) ==
  CASE pc = 1 ->
         IF r.val \notin Statuses THEN {Done(loc, db, 400)}
         ELSE IF r.target \notin DOMAIN db.tasks THEN {Done(loc, db, 404)}
         ELSE {Cont(2, [loc EXCEPT !.task = db.tasks[r.target]], db)}
    [] pc = 2 ->
         LET code == updateTaskStatusCode(r.actor, loc.role, loc.task,
                                          db.projects, r.val)
         IN IF code # 0 THEN {Done(loc, db, code)}
            ELSE {Cont(3, [loc EXCEPT !.project =
                                        db.projects[loc.task.project]], db)}
    [] OTHER ->                     \* task.status = status; task.save()
         IF r.val = loc.task.status    \* path not modified: nothing is sent
         THEN IF r.target \in DOMAIN db.tasks THEN {Done(loc, db, 200)}
              ELSE saveOfMissing(loc, db)
         ELSE IF r.target \in DOMAIN db.tasks
         THEN {Done(loc, [db EXCEPT !.tasks[r.target].status = r.val], 200)}
         ELSE saveOfMissing(loc, db)

\* GET /api/tasks?project=p
getTasksCode(a, role, ps, p) ==
  IF p \notin DOMAIN ps THEN 404
  ELSE IF ~(\/ ps[p].owner = a
            \/ someMember(ps[p], a)
            \/ role = "admin")
       THEN 403
  ELSE 0

\* without the filter: Project.find({ $or: [{ owner: userId },
\* { 'members.user': userId }] })
accessibleProjects(a, ps) ==
  {q \in DOMAIN ps : ps[q].owner = a \/ someMember(ps[q], a)}

\* the tasks Task.find(query) returns: query.project is the project of the
\* filter or { $in: projectIds }
getTasksResult(ts, projectIds) ==
  {t \in DOMAIN ts : ts[t].project \in projectIds}

getTasksSeg(r, pc, loc, db) ==
  CASE pc = 1 ->
         IF r.target = NoId
         THEN {Cont(2, [loc EXCEPT !.ids = accessibleProjects(r.actor,
                                                              db.projects)],
                    db)}
         ELSE LET code == getTasksCode(r.actor, loc.role, db.projects,
                                       r.target)
              IN IF code # 0 THEN {Done(loc, db, code)}
                 ELSE {Cont(2, [loc EXCEPT !.ids = {r.target}], db)}
    [] OTHER ->
         {Done([loc EXCEPT !.ids = getTasksResult(db.tasks, loc.ids)], db,
               200)}

\* Project.findById(task.project) and hasAccess of getTask
getTaskCode(a, role, task, ps) ==
  IF task.project \notin DOMAIN ps THEN 500
  ELSE IF ~(\/ ps[task.project].owner = a
            \/ someMember(ps[task.project], a)
            \/ role = "admin")
       THEN 403
  ELSE 200

getTaskSeg(r, pc, loc, db) ==
  CASE pc = 1 ->
         IF r.target \notin DOMAIN db.tasks THEN {Done(loc, db, 404)}
         ELSE {Cont(2, [loc EXCEPT !.task = db.tasks[r.target]], db)}
    [] OTHER ->
         {Done(loc, db,
               getTaskCode(r.actor, loc.role, loc.task, db.projects))}

\* req.body.text: absent or empty, blank, or with some text
CommentTexts == {"", " ", "x", " y "}

\* String.prototype.trim
trim(text) ==
  IF text = " " THEN "" ELSE IF text = " y " THEN "y" ELSE text

\* addComment without the project access check
addCommentCode_noAccessCheck(a, role, task, ps) ==
  IF task.project \notin DOMAIN ps THEN 500
  ELSE 0

\* Project.findById(task.project) and hasAccess of addComment
addCommentCode(a, role, task, ps) ==
  IF task.project \notin DOMAIN ps THEN 500
  ELSE IF ~(\/ ps[task.project].owner = a
            \/ someMember(ps[task.project], a)
            \/ role = "admin")
       THEN 403
  ELSE 0

\* addComment whose save writes the comments array in hand back ($set of
\* the loaded array with the new entry) instead of pushing
addCommentSeg_setArray(r, pc, loc, db) ==
  CASE pc = 1 ->
         IF r.val = "" \/ trim(r.val) = "" THEN {Done(loc, db, 400)}
         ELSE IF r.target \notin DOMAIN db.tasks THEN {Done(loc, db, 404)}
         ELSE {Cont(2, [loc EXCEPT !.task = db.tasks[r.target]], db)}
    [] pc = 2 ->
         LET code == addCommentCode(r.actor, loc.role, loc.task, db.projects)
         IN IF code # 0 THEN {Done(loc, db, code)}
            ELSE {Cont(3, [loc EXCEPT !.project =
                                        db.projects[loc.task.project]], db)}
    [] pc = 3 ->
         IF r.target \in DOMAIN db.tasks
         THEN {Cont(4, loc,
                    [db EXCEPT !.tasks[r.target].comments =
                       Append(loc.task.comments,
                              [user |-> r.actor, text |-> trim(r.val)])])}
         ELSE {Done(loc, db, 500)}
    [] OTHER ->
         {Done(loc, db, IF r.target \in DOMAIN db.tasks THEN 200 ELSE 500)}

addCommentSeg(r, pc, loc, db) ==
  CASE pc = 1 ->
         IF r.val = "" \/ trim(r.val) = "" THEN {Done(loc, db, 400)}
         ELSE IF r.target \notin DOMAIN db.tasks THEN {Done(loc, db, 404)}
         ELSE {Cont(2, [loc EXCEPT !.task = db.tasks[r.target]], db)}
    [] pc = 2 ->
         LET code == addCommentCode(r.actor, loc.role, loc.task, db.projects)
         IN IF code # 0 THEN {Done(loc, db, code)}
            ELSE {Cont(3, [loc EXCEPT !.project =
                                        db.projects[loc.task.project]], db)}
    [] pc = 3 ->                 \* task.comments.push(...); task.save()
         IF r.target \in DOMAIN db.tasks
         THEN {Cont(4, loc,
                    [db EXCEPT !.tasks[r.target].comments =
                       Append(@, [user |-> r.actor, text |-> trim(r.val)])])}
         ELSE {Done(loc, db, 500)}
    [] OTHER ->            \* Task.findById(task._id); updatedTask.comments
         {Done(loc, db, IF r.target \in DOMAIN db.tasks THEN 200 ELSE 500)}

\* ---------------------------------------------------------- user handlers

getUsersCode(a, role) ==
  IF role # "admin" THEN 403 ELSE 200

getUsersSeg(r, pc, loc, db) ==
  {Done(loc, db, getUsersCode(r.actor, loc.role))}

\* getUser without the "own profile or admin" check
getUserCode_noAccessCheck(a, role, us, id) ==
  IF id \notin DOMAIN us THEN 404
  ELSE 0

getUserCode(a, role, us, id) ==
  IF id \notin DOMAIN us THEN 404
  ELSE IF a # id /\ role # "admin" THEN 403
  ELSE 0

\* User.findById and the checks; then four awaited countDocuments, whose
\* numbers go into the response body only
getUserSeg(r, pc, loc, db) ==
  CASE pc = 1 ->
         LET code == getUserCode(r.actor, loc.role, db.users, r.target)
         IN IF code # 0 THEN {Done(loc, db, code)}
            ELSE {Cont(2, [loc EXCEPT !.user = db.users[r.target]], db)}
    [] pc = 2 -> {Cont(3, loc, db)}    \* Project.countDocuments({ owner })
    [] pc = 3 -> {Cont(4, loc, db)}    \* Project.countDocuments(members)
    [] pc = 4 -> {Cont(5, loc, db)}    \* Task.countDocuments({ assignee })
    [] OTHER -> {Done(loc, db, 200)}   \* Task.countDocuments(done)

\* no lookup of the user: the finds return empty lists for a missing id
getUserDashboardCode(a, role, id) ==
  IF a # id /\ role # "admin" THEN 403
  ELSE 200

\* the check; then five awaited queries, whose results go into the
\* response body only
getUserDashboardSeg(r, pc, loc, db) ==
  CASE pc = 1 ->                       \* Project.find(...).populate('owner')
         LET code == getUserDashboardCode(r.actor, loc.role, r.target)
         IN IF code # 200 THEN {Done(loc, db, code)} ELSE {Cont(2, loc, db)}
    [] pc = 2 -> {Cont(3, loc, db)}    \* Task.find(...).populate('project')
    [] pc = 3 -> {Cont(4, loc, db)}    \* Task.countDocuments({ assignee })
    [] pc = 4 -> {Cont(5, loc, db)}    \* Task.countDocuments(done)
    [] OTHER -> {Done(loc, db, 200)}   \* Task.find: overdueTasks

\* updateUserRole without the "Cannot change your own role" check
updateUserRoleCode_noSelfCheck(a, role, us, id, newRole) ==
  IF role # "admin" THEN 403
  ELSE IF newRole \notin Roles THEN 400
  ELSE IF id \notin DOMAIN us THEN 404
  ELSE 0

updateUserRoleCode(a, role, us, id, newRole) ==
  IF role # "admin" THEN 403
  ELSE IF newRole \notin Roles THEN 400
  ELSE IF id \notin DOMAIN us THEN 404
  ELSE IF a = id THEN 400
  ELSE 0

updateUserRoleSeg(r, pc, loc, db) ==
  CASE pc = 1 ->
         LET code == updateUserRoleCode(r.actor, loc.role, db.users,
                                        r.target, r.val)
         IN IF code # 0 THEN {Done(loc, db, code)}
            ELSE {Cont(2, [loc EXCEPT !.user = db.users[r.target]], db)}
    [] OTHER ->                          \* user.role = role; user.save()
         IF r.val = loc.user.role      \* path not modified: nothing is sent
         THEN IF r.target \in DOMAIN db.users THEN {Done(loc, db, 200)}
              ELSE saveOfMissing(loc, db)
         ELSE IF r.target \in DOMAIN db.users
         THEN {Done(loc, [db EXCEPT !.users[r.target].role = r.val], 200)}
         ELSE saveOfMissing(loc, db)

\* the isActive values of a request body; "bogus" is any non-boolean
ActiveValues == {"true", "false", "bogus"}

updateUserStatusCode(a, role, us, id, isActive) ==
  IF role # "admin" THEN 403
  ELSE IF isActive \notin {"true", "false"} THEN 400
  ELSE IF id \notin DOMAIN us THEN 404
  ELSE IF a = id /\ isActive = "false" THEN 400
  ELSE 0

updateUserStatusSeg(r, pc, loc, db) ==
  CASE pc = 1 ->
         LET code == updateUserStatusCode(r.actor, loc.role, db.users,
                                          r.target, r.val)
         IN IF code # 0 THEN {Done(loc, db, code)}
            ELSE {Cont(2, [loc EXCEPT !.user = db.users[r.target]], db)}
    [] OTHER ->                  \* user.isActive = isActive; user.save()
         IF (r.val = "true") = loc.user.isActive       \* path not modified
         THEN IF r.target \in DOMAIN db.users THEN {Done(loc, db, 200)}
              ELSE saveOfMissing(loc, db)
         ELSE IF r.target \in DOMAIN db.users
         THEN {Done(loc,
                    [db EXCEPT !.users[r.target].isActive = (r.val = "true")],
                    200)}
         ELSE saveOfMissing(loc, db)

\* deleteUser without the "Cannot delete your own account" check
deleteUserCode_noSelfCheck(a, role, us, id) ==
  IF role # "admin" THEN 403
  ELSE IF id \notin DOMAIN us THEN 404
  ELSE 0

deleteUserCode(a, role, us, id) ==
  IF role # "admin" THEN 403
  ELSE IF id \notin DOMAIN us THEN 404
  ELSE IF a = id THEN 400
  ELSE 0

\* Project.updateMany({'members.user': id}, {$pull: {members: {user: id}}})
projectsAfterDeleteUser(ps, id) ==
  [p \in DOMAIN ps |-> [ps[p] EXCEPT !.members = SelectSeqBy(@, id)]]

\* Task.updateMany({ assignee: id }, { $unset: { assignee: 1 } })
tasksAfterDeleteUser(ts, id) ==
  [t \in DOMAIN ts |->
     IF ts[t].assignee = id THEN [ts[t] EXCEPT !.assignee = NoUser]
     ELSE ts[t]]

\* the project the loop over projectsOwned handles next
nextOwned(ids) == CHOOSE p \in ids : \A q \in ids : p <= q

deleteUserSeg(r, pc, loc, db) ==
  CASE pc = 1 ->
         LET code == deleteUserCode(r.actor, loc.role, db.users, r.target)
         IN IF code # 0 THEN {Done(loc, db, code)} ELSE {Cont(2, loc, db)}
    [] pc = 2 ->                         \* Project.find({ owner: user._id })
         LET owned == {p \in DOMAIN db.projects :
                         db.projects[p].owner = r.target}
         IN {Cont(IF owned = {} THEN 5 ELSE 3, [loc EXCEPT !.ids = owned],
                  db)}
    [] pc = 3 ->               \* Task.deleteMany({ project: project._id })
         {Cont(4, loc,
               [db EXCEPT !.tasks =
                            tasksAfterDeleteProject(@, nextOwned(loc.ids))])}
    [] pc = 4 ->                                   \* project.deleteOne()
         LET p    == nextOwned(loc.ids)
             rest == loc.ids \ {p}
         IN {Cont(IF rest = {} THEN 5 ELSE 3, [loc EXCEPT !.ids = rest],
                  [db EXCEPT !.projects = Restrict(@, DOMAIN @ \ {p})])}
    [] pc = 5 ->
         {Cont(6, loc,
               [db EXCEPT !.projects = projectsAfterDeleteUser(@, r.target)])}
    [] pc = 6 ->
         {Cont(7, loc,
               [db EXCEPT !.tasks = tasksAfterDeleteUser(@, r.target)])}
    [] OTHER ->                                       \* user.deleteOne()
         {Done(loc, [db EXCEPT !.users = Restrict(@, DOMAIN @ \ {r.target})],
               200)}

\* ------------------------------------------------------ serving a request
\* the segment pc of the handler the router gives the request to
Seg(r, pc, loc, db) ==
  CASE r.op = "getProject"       -> getProjectSeg(r, pc, loc, db)
    [] r.op = "createProject"    -> createProjectSeg(r, pc, loc, db)
    [] r.op = "updateProject"    -> updateProjectSeg(r, pc, loc, db)
    [] r.op = "deleteProject"    -> deleteProjectSeg(r, pc, loc, db)
    [] r.op = "addMember"        -> addMemberSeg(r, pc, loc, db)
    [] r.op = "removeMember"     -> removeMemberSeg(r, pc, loc, db)
    [] r.op = "createTask"       -> createTaskSeg(r, pc, loc, db)
    [] r.op = "updateTask"       -> updateTaskSeg(r, pc, loc, db)
    [] r.op = "deleteTask"       -> deleteTaskSeg(r, pc, loc, db)
    [] r.op = "updateTaskStatus" -> updateTaskStatusSeg(r, pc, loc, db)
    [] r.op = "getTasks"         -> getTasksSeg(r, pc, loc, db)
    [] r.op = "getTask"          -> getTaskSeg(r, pc, loc, db)
    [] r.op = "addComment"       -> addCommentSeg(r, pc, loc, db)
    [] r.op = "getUsers"         -> getUsersSeg(r, pc, loc, db)
    [] r.op = "getUser"          -> getUserSeg(r, pc, loc, db)
    [] r.op = "getUserDashboard" -> getUserDashboardSeg(r, pc, loc, db)
    [] r.op = "updateUserRole"   -> updateUserRoleSeg(r, pc, loc, db)
    [] r.op = "updateUserStatus" -> updateUserStatusSeg(r, pc, loc, db)
    [] OTHER                     -> deleteUserSeg(r, pc, loc, db)

RECURSIVE Run(_, _, _, _)
\* the handler from segment pc to its response, nothing in between
Run(r, pc, loc, db) ==
  UNION {IF o.code # 0 THEN {o} ELSE Run(r, o.pc, o.loc, o.db) :
           o \in Seg(r, pc, loc, db)}

RECURSIVE RunN(_, _, _, _, _)
\* the handler after n segments from segment pc, when none of them has
\* sent the response
RunN(r, n, pc, loc, db) ==
  IF n = 0 THEN {Cont(pc, loc, db)}
  ELSE UNION {IF o.code # 0 THEN {} ELSE RunN(r, n - 1, o.pc, o.loc, o.db) :
                o \in Seg(r, pc, loc, db)}

\* the awaits a handler can be suspended at, counted in segments done; the
\* longest handler is deleteUser with two calls per owned project
Gaps == 1..(4 + 2 * MaxProjects)

\* what the suspended request is still going to insert
pendingTasks ==
  IF pending.op = "createTask" /\ pending.pc <= 2 THEN 1 ELSE 0
pendingComments(t) ==
  IF pending.op = "addComment" /\ pending.target = t /\ pending.pc <= 3
  THEN 1 ELSE 0

\* the requests the bounds leave room for
Accepts(r) ==
  /\ r.op = "createProject" => nextProject < MaxProjects
  /\ r.op = "createTask" => nextTask + pendingTasks < MaxTasks
  /\ (r.op = "addComment" /\ r.target \in DOMAIN tasks) =>
       Len(tasks[r.target].comments) + pendingComments(r.target) < MaxComments

\* the response to request r after outcome o
Response(r, o) ==
  [Request(r.op, r.actor, r.target, r.arg, r.val, o.code)
     EXCEPT !.body = r.body,
            !.result = IF o.code \in {200, 201} THEN o.loc.ids ELSE {}]

\* protect sets req.user; the handler runs from its first line to its
\* response with no other request in between
Serve(r) ==
  /\ Authenticated(r.actor)
  /\ Accepts(r)
  /\ \E o \in Run(r, 1, Locals(roleOf(r.actor)), DB) :
       /\ SetDB(o.db)
       /\ Respond(Response(r, o))

GetProject(a, p) == Serve(Req("getProject", a, p, NoId, "", NoBody))

CreateProject(a) == Serve(Req("createProject", a, NoId, NoId, "", NoBody))

UpdateProject(a, p, updates) ==
  Serve(Req("updateProject", a, p, NoId, updates.key, updates))

DeleteProject(a, p) == Serve(Req("deleteProject", a, p, NoId, "", NoBody))

AddMember(a, p, userId, role) ==
  Serve(Req("addMember", a, p, userId, role, NoBody))

RemoveMember(a, p, memberId) ==
  Serve(Req("removeMember", a, p, memberId, "", NoBody))

CreateTask(a, p, assignee) ==
  Serve(Req("createTask", a, p, assignee, "", NoBody))

\* val: the status the body carries, else the key it carries
taskUpdateVal(body) == IF body.key = "status" THEN body.status ELSE body.key

UpdateTask(a, t, body) ==
  Serve(Req("updateTask", a, t, body.assignee, taskUpdateVal(body), body))

DeleteTask(a, t) == Serve(Req("deleteTask", a, t, NoId, "", NoBody))

UpdateTaskStatus(a, t, status) ==
  Serve(Req("updateTaskStatus", a, t, NoId, status, NoBody))

GetTasks(a, p) == Serve(Req("getTasks", a, p, NoId, "", NoBody))

GetTask(a, t) == Serve(Req("getTask", a, t, NoId, "", NoBody))

AddComment(a, t, text) == Serve(Req("addComment", a, t, NoId, text, NoBody))

GetUsers(a) == Serve(Req("getUsers", a, NoId, NoId, "", NoBody))

GetUser(a, id) == Serve(Req("getUser", a, id, NoId, "", NoBody))

GetUserDashboard(a, id) ==
  Serve(Req("getUserDashboard", a, id, NoId, "", NoBody))

UpdateUserRole(a, id, role) ==
  Serve(Req("updateUserRole", a, id, NoId, role, NoBody))

UpdateUserStatus(a, id, isActive) ==
  Serve(Req("updateUserStatus", a, id, NoId, isActive, NoBody))

DeleteUser(a, id) == Serve(Req("deleteUser", a, id, NoId, "", NoBody))

\* the requests of the routes, by any user
Requests ==
  LET R(op, targets, args, vals) ==
        {Req(op, a, t, x, v, NoBody) :
           a \in UserIds, t \in targets, x \in args, v \in vals}
  IN R("getProject", ProjectIds, {NoId}, {""})
     \cup R("createProject", {NoId}, {NoId}, {""})
     \cup {Req("updateProject", a, p, NoId, b.key, b) :
             a \in UserIds, p \in ProjectIds, b \in ProjectUpdates}
     \cup R("deleteProject", ProjectIds, {NoId}, {""})
     \cup R("addMember", ProjectIds, UserIds, MemberRoles)
     \cup R("removeMember", ProjectIds, UserIds, {""})
     \cup R("createTask", ProjectIds, UserIds \cup {NoUser}, {""})
     \cup {Req("updateTask", a, t, b.assignee, taskUpdateVal(b), b) :
             a \in UserIds, t \in TaskIds, b \in TaskUpdates}
     \cup R("deleteTask", TaskIds, {NoId}, {""})
     \cup R("updateTaskStatus", TaskIds, {NoId}, Statuses \cup {"bogus"})
     \cup R("getTasks", ProjectIds \cup {NoId}, {NoId}, {""})
     \cup R("getTask", TaskIds, {NoId}, {""})
     \cup R("addComment", TaskIds, {NoId}, CommentTexts)
     \cup R("getUsers", {NoId}, {NoId}, {""})
     \cup R("getUser", UserIds, {NoId}, {""})
     \cup R("getUserDashboard", UserIds, {NoId}, {""})
     \cup R("updateUserRole", UserIds, {NoId}, Roles \cup {"bogus"})
     \cup R("updateUserStatus", UserIds, {NoId}, ActiveValues)
     \cup R("deleteUser", UserIds, {NoId}, {""})

\* A request runs its first n segments and is suspended at the next await;
\* what it wrote so far is in the database.  (Next suspends the first
\* request only, and one request at a time.)
Suspend(r, n) ==
  /\ Authenticated(r.actor)
  /\ Accepts(r)
  /\ \E s \in RunN(r, n, 1, Locals(roleOf(r.actor)), DB) :
       /\ SetDB(s.db)
       /\ pending' =
            [op |-> r.op, actor |-> r.actor, target |-> r.target,
             arg |-> r.arg, val |-> r.val, body |-> r.body,
             pc |-> s.pc, loc |-> s.loc, wrote |-> s.db # DB]
  /\ UNCHANGED <<last, steps, app>>

\* the suspended request runs on to its response, on the collections as
\* they are now
Resume ==
  /\ pending.op # "none"
  /\ \E o \in Run(pending, pending.pc, pending.loc, DB) :
       /\ SetDB(o.db)
       /\ last' = Response(pending, o)
  /\ steps' = steps + 1
  /\ pending' = NoRequest
  /\ UNCHANGED app

\* POST /api/tasks of server-simple.js: no authentication, no project
\* lookup; Task.create(req.body) with the schema of that file (title,
\* description, status, project, createdBy) on the same collection
SimpleStatuses == {"todo", "bogus"}

SimpleCreateTask(p, createdBy, status) ==
  /\ steps < MaxSteps
  /\ pending.op = "none"
  /\ nextTask < MaxTasks
  /\ SetDB(insertTask(DB, [createdTask(p, NoUser, createdBy)
                             EXCEPT !.status = status]))
  /\ Respond([Request("simpleCreateTask", NoUser, p, createdBy, status, 200)
                EXCEPT !.result = {nextTask + 1}])

\* The routers of the route files with the handlers they bind, on an
\* application that hands them the requests (the stack that server.js
\* builds is the subject of SpecServer).  A request is served with no
\* other request between its awaits, or it is suspended at an await while
\* another request is served; and the requests to server-simple.js.
Next ==
  \/ \E a \in Actors, p \in ProjectIds : GetProject(a, p)
  \/ \E a \in Actors : CreateProject(a)
  \/ \E a \in Actors, p \in ProjectIds, b \in ProjectUpdates :
       UpdateProject(a, p, b)
  \/ \E a \in Actors, p \in ProjectIds : DeleteProject(a, p)
  \/ \E a \in Actors, p \in ProjectIds, u \in UserIds, r \in MemberRoles :
       AddMember(a, p, u, r)
  \/ \E a \in Actors, p \in ProjectIds, u \in UserIds :
       RemoveMember(a, p, u)
  \/ \E a \in Actors, p \in ProjectIds, u \in UserIds \cup {NoUser} :
       CreateTask(a, p, u)
  \/ \E a \in Actors, t \in TaskIds, b \in TaskUpdates : UpdateTask(a, t, b)
  \/ \E a \in Actors, t \in TaskIds : DeleteTask(a, t)
  \/ \E a \in Actors, t \in TaskIds, st \in Statuses \cup {"bogus"} :
       UpdateTaskStatus(a, t, st)
  \/ \E a \in Actors, u \in UserIds, r \in Roles \cup {"bogus"} :
       UpdateUserRole(a, u, r)
  \/ \E a \in Actors, u \in UserIds, v \in ActiveValues :
       UpdateUserStatus(a, u, v)
  \/ \E a \in Actors, u \in UserIds : DeleteUser(a, u)
  \/ \E a \in Actors, p \in ProjectIds \cup {NoId} : GetTasks(a, p)
  \/ \E a \in Actors, t \in TaskIds : GetTask(a, t)
  \/ \E a \in Actors, t \in TaskIds, x \in CommentTexts : AddComment(a, t, x)
  \/ \E a \in Actors : GetUsers(a)
  \/ \E a \in Actors, u \in UserIds : GetUser(a, u)
  \/ \E a \in Actors, u \in UserIds : GetUserDashboard(a, u)
  \/ /\ steps = 0
     /\ pending.op = "none"
     /\ \E r \in Requests, n \in Gaps : Suspend(r, n)
  \/ Resume
  \/ \E p \in ProjectIds, u \in UserIds, st \in SimpleStatuses :
       SimpleCreateTask(p, u, st)

Spec == Init /\ [][Next]_vars

\* ------------------------------------------------- the isOverdue virtual
Times    == 1..MaxTime
DueDates == Times \cup {NoDate}

\* isOverdue without the status test
isOverdue_ignoresStatus(task, now) ==
  IF task.dueDate = NoDate THEN FALSE
  ELSE now > task.dueDate

\* taskSchema.virtual('isOverdue'); now is new Date()
isOverdue(task, now) ==
  IF task.dueDate = NoDate THEN FALSE
  ELSE now > task.dueDate /\ task.status # "done"

\* a read of task.isOverdue at clock reading now
ReadOverdue(t, now) ==
  /\ t \in DOMAIN tasks
  /\ last' = Request("isOverdue", NoUser, t, now,
                     IF isOverdue(tasks[t], now) THEN "true" ELSE "false", 0)
  /\ UNCHANGED <<data, steps, pending, app>>

\* project 1 of user 2 with member 3; task 1, created by 3 for themselves
\* with or without a dueDate, in some status
InitOverdue ==
  /\ users = SeedUsers
  /\ projects =
       [p \in {1} |->
          SeedProject(2, <<[user |-> 3, role |-> "member"]>>,
                      DefaultSettings, 1)]
  /\ \E st \in Statuses, d \in DueDates :
       tasks = [t \in {1} |-> [SeedTask(1, st, 3, 3) EXCEPT !.dueDate = d]]
  /\ nextProject = 1
  /\ nextTask = 1
  /\ last = Request("none", NoUser, NoId, NoId, "", 0)
  /\ steps = 0
  /\ pending = NoRequest
  /\ app = NoServer

\* the users that can send the next request to the task routes
TaskActors == IF steps < MaxUpdates THEN DOMAIN users ELSE {}

\* the requests that write the status of a stored task
StatusRequests ==
  {Req("updateTaskStatus", a, t, NoId, st, NoBody) :
     a \in UserIds, t \in DOMAIN tasks, st \in Statuses \cup {"bogus"}}
  \cup {Req("updateTask", a, t, b.assignee, taskUpdateVal(b), b) :
          a \in UserIds, t \in DOMAIN tasks,
          b \in {u \in TaskUpdates : u.key = "status"}}

\* isOverdue is read between the requests that change a task's status;
\* such a request is served with no other request between its awaits, or
\* it is suspended at one of its awaits while others are served
NextOverdue ==
  \/ \E t \in TaskIds, now \in Times : ReadOverdue(t, now)
  \/ \E a \in TaskActors, t \in DOMAIN tasks, st \in Statuses \cup {"bogus"} :
       UpdateTaskStatus(a, t, st)
  \/ \E a \in TaskActors, t \in DOMAIN tasks, b \in TaskUpdates :
       b.key = "status" /\ UpdateTask(a, t, b)
  \/ /\ steps < MaxUpdates
     /\ pending.op = "none"
     /\ \E r \in StatusRequests, n \in Gaps : Suspend(r, n)
  \/ Resume

SpecOverdue == InitOverdue /\ [][NextOverdue]_vars

\* ----------------------------------------------------------------- claims
Succeeded(r) == r.code \in {200, 201}

\* a step that answers a request of the routes
Responds == steps' = steps + 1 /\ last'.op # "simpleCreateTask"

\* the step answers the request that had been suspended
Resumed == pending.op # "none" /\ pending'.op = "none"

\* req.user.role of the request the step answers
reqRole ==
  IF Resumed THEN pending.loc.role
  ELSE IF last'.actor \in DOMAIN users THEN users[last'.actor].role
  ELSE ""

\* the global role of the actor of the last request, after the request
lastRole ==
  IF last.actor \in DOMAIN users THEN users[last.actor].role ELSE ""

\* The project document the checks of the answered request on project p
\* decided on: the one the handler fetched before it was suspended, else
\* the stored one.
hasProject(p) == Resumed \/ p \in DOMAIN projects
theProject(p) == IF Resumed THEN pending.loc.project ELSE projects[p]

\* the task document the answered request on task t fetched, and the
\* project document it fetched for that task
hasTask(t) == Resumed \/ t \in DOMAIN tasks
theTask(t) == IF Resumed THEN pending.loc.task ELSE tasks[t]
hasTaskProject(t) ==
  (Resumed /\ pending.pc > 2) \/ theTask(t).project \in DOMAIN projects
theTaskProject(t) ==
  IF Resumed /\ pending.pc > 2 THEN pending.loc.project
  ELSE projects[theTask(t).project]

\* a request on a task that is stored when the step begins, with the task
\* and the project the handler decides on
onTask(r) ==
  /\ r.target \in DOMAIN tasks
  /\ hasTask(r.target)
  /\ hasTaskProject(r.target)

\* owner, member (any sub-role) or global admin
canView(project, a, role) ==
  project.owner = a \/ someMember(project, a) \/ role = "admin"

\* the project participants: the owner and the members
participant(project, u) == project.owner = u \/ someMember(project, u)

\* C1: a getProject request for project P by user U is answered 200 if and
\* only if U is the owner of P, a member of P or a global admin, and 403 in
\* every other case.
C1_ViewIffOwnerMemberAdmin ==
  [][(/\ Responds
      /\ last'.op = "getProject"
      /\ hasProject(last'.target))
       => last'.code =
            IF canView(theProject(last'.target), last'.actor, reqRole)
            THEN 200 ELSE 403
    ]_vars

\* C2: in every reachable state no project's members list has an entry
\* whose user is the project's owner.
C2_OwnerNeverInMembers ==
  \A p \in DOMAIN projects : ~someMember(projects[p], projects[p].owner)

\* C3: a removeMember request whose memberId is the owner of the project
\* never succeeds, whoever the actor is, and leaves the project's owner and
\* members unchanged.
C3_RemoveOwnerAlwaysFails ==
  [][(/\ Responds
      /\ last'.op = "removeMember"
      /\ hasProject(last'.target)
      /\ last'.arg = theProject(last'.target).owner)
       => /\ last'.code \in {400, 403}
          /\ last'.target \in DOMAIN projects
          /\ last'.target \in DOMAIN projects'
          /\ projects'[last'.target].owner = projects[last'.target].owner
          /\ projects'[last'.target].members = projects[last'.target].members
    ]_vars

\* C3 witness: a global admin who is not the owner asked to remove the
\* owner and got 400.
C3_Witness ==
  /\ last.op = "removeMember"
  /\ last.target \in DOMAIN projects
  /\ last.arg = projects[last.target].owner
  /\ last.actor # last.arg
  /\ lastRole = "admin"
  /\ last.code = 400

\* the actor's only relation to the project is a members entry with role
\* member, and the actor is not a global admin
plainMember(project, a, role) ==
  /\ role # "admin"
  /\ project.owner # a
  /\ someMember(project, a)
  /\ ~someManager(project, a)

\* C4: a createTask request by a non-admin actor whose only relation to the
\* project is a members entry with role member succeeds if and only if
\* settings.allowMemberTaskCreation is true; when it is false the request is
\* denied with 403 and no task is created.  (Requests whose assignee is
\* absent or a project participant.)
C4_MemberCreateIffSetting ==
  [][(/\ Responds
      /\ last'.op = "createTask"
      /\ hasProject(last'.target)
      /\ plainMember(theProject(last'.target), last'.actor, reqRole)
      /\ (last'.arg = NoUser
          \/ participant(theProject(last'.target), last'.arg)))
       => IF theProject(last'.target).settings.allowMemberTaskCreation
          THEN last'.code = 201
          ELSE last'.code = 403 /\ tasks' = tasks
    ]_vars

\* a request that sets the assignee of a task, with the project the
\* handler decides on
SetsAssignee(r) ==
  /\ r.arg # NoUser
  /\ \/ r.op = "createTask" /\ hasProject(r.target)
     \/ r.op = "updateTask" /\ r.val = "assignee" /\ onTask(r)
assignProject(r) ==
  IF r.op = "createTask" THEN theProject(r.target)
  ELSE theTaskProject(r.target)

\* C5: a request that sets a task's assignee to a user who is neither the
\* owner nor a member of the task's project does not succeed and stores
\* nothing, for every actor; for the project owner and for a global admin
\* it is answered 400.
C5_AssigneeMustBeParticipant ==
  [][(/\ Responds
      /\ SetsAssignee(last')
      /\ ~participant(assignProject(last'), last'.arg))
       => /\ ~Succeeded(last')
          /\ tasks' = tasks
          /\ ownerOrAdmin(assignProject(last'), last'.actor, reqRole)
               => last'.code = 400
    ]_vars

\* a request of actor a against a's own account that would change the
\* role, deactivate the account or delete it
SelfRequest(r) ==
  /\ r.target = r.actor
  /\ \/ r.op = "updateUserRole"
     \/ r.op = "deleteUser"
     \/ r.op = "updateUserStatus" /\ r.val = "false"

\* C6: no request changes the actor's own global role, sets the actor's own
\* isActive flag to false or deletes the actor's own account; such a
\* request is rejected and leaves the User records unchanged.
C6_SelfProtection ==
  [][(Responds /\ last'.actor \in DOMAIN users)
       => /\ last'.actor \in DOMAIN users'
          /\ users'[last'.actor].role = users[last'.actor].role
          /\ users[last'.actor].isActive => users'[last'.actor].isActive
          /\ SelfRequest(last')
               => ~Succeeded(last') /\ users' = users
    ]_vars

\* C6 witness: an admin asked to give their own account another, valid
\* role and got 400.
C6_Witness ==
  /\ last.op = "updateUserRole"
  /\ last.target = last.actor
  /\ lastRole = "admin"
  /\ last.val \in Roles \ {"admin"}
  /\ last.code = 400

\* the entries of a members list that do not refer to user u
entriesWithout(members, u) == {m \in Range(members) : m.user # u}

\* C7: when an admin successfully deletes user U: U is deleted and
\* afterwards no project has U as owner or member and no task has U as
\* assignee; every project owned by U is deleted with all its tasks; U is
\* removed from the members of every remaining project, which is otherwise
\* unchanged; every remaining task stays, with its assignee cleared if it
\* was U and otherwise unchanged.
C7_DeleteUserCascade ==
  [][(Responds /\ last'.op = "deleteUser" /\ Succeeded(last'))
       => LET U == last'.target
              owned == {p \in DOMAIN projects : projects[p].owner = U}
          IN /\ U # last'.actor
             /\ reqRole = "admin"
             /\ U \notin DOMAIN users'
             /\ \A p \in DOMAIN projects' :
                  projects'[p].owner # U /\ ~someMember(projects'[p], U)
             /\ \A t \in DOMAIN tasks' : tasks'[t].assignee # U
             /\ ~Resumed =>
                  /\ DOMAIN users' = DOMAIN users \ {U}
                  /\ \A v \in DOMAIN users' : users'[v] = users[v]
                  /\ DOMAIN projects' = DOMAIN projects \ owned
                  /\ DOMAIN tasks' =
                       {t \in DOMAIN tasks : tasks[t].project \notin owned}
                  /\ \A p \in DOMAIN projects' :
                       /\ projects'[p].owner = projects[p].owner
                       /\ projects'[p].settings = projects[p].settings
                       /\ Range(projects'[p].members)
                            = entriesWithout(projects[p].members, U)
                  /\ \A t \in DOMAIN tasks' :
                       /\ tasks'[t].assignee =
                            IF tasks[t].assignee = U THEN NoUser
                            ELSE tasks[t].assignee
                       /\ tasks'[t].project = tasks[t].project
                       /\ tasks'[t].status = tasks[t].status
                       /\ tasks'[t].createdBy = tasks[t].createdBy
    ]_vars

\* a request that changes the status of a task to a valid status
ChangesStatus(r) ==
  /\ r.op \in {"updateTaskStatus", "updateTask"}
  /\ r.val \in Statuses
  /\ onTask(r)

\* C8: a request that changes the status of task T is allowed if and only
\* if the actor is T's assignee, the owner of T's project, a member of the
\* project with role manager, or a global admin; every other actor gets 403
\* and the status is unchanged.
C8_StatusChangeIff ==
  [][(Responds /\ ChangesStatus(last'))
       => LET t == last'.target IN
          IF canUpdateTaskStatus(theTaskProject(t), theTask(t), last'.actor,
                                 reqRole)
          THEN /\ last'.code = 200
               /\ t \in DOMAIN tasks'
               /\ tasks'[t].status = last'.val
          ELSE last'.code = 403 /\ tasks' = tasks
    ]_vars

\* C9: a deleteTask request on task T is allowed if and only if the actor
\* is the owner of T's project, the creator of T or a global admin; every
\* other actor gets 403 and T still exists.
C9_DeleteTaskIff ==
  [][(Responds /\ last'.op = "deleteTask" /\ onTask(last'))
       => LET t == last'.target IN
          IF canDeleteTask(theTaskProject(t), theTask(t), last'.actor,
                           reqRole)
          THEN last'.code = 200 /\ t \notin DOMAIN tasks'
          ELSE last'.code = 403 /\ tasks' = tasks
    ]_vars

\* C10: an updateTask request that changes only title, description,
\* priority, dueDate or tags is allowed if and only if the actor can view
\* the task's project; any other actor is denied and the task is unchanged.
C10_FieldUpdateIffCanView ==
  [][(/\ Responds
      /\ last'.op = "updateTask"
      /\ last'.val = "title"
      /\ onTask(last'))
       => IF canView(theTaskProject(last'.target), last'.actor, reqRole)
          THEN last'.code = 200
          ELSE last'.code = 403 /\ tasks' = tasks
    ]_vars

\* C11: a request that sets or changes a task's assignee to a project
\* participant is allowed when the actor is the project owner, a member
\* with role manager or a global admin, and for a member with role member
\* exactly when settings.allowMemberTaskAssignment is true; every other
\* actor gets 403 and nothing is stored.
C11_AssignRule ==
  [][(/\ Responds
      /\ SetsAssignee(last')
      /\ participant(assignProject(last'), last'.arg))
       => IF canAssignTasks(assignProject(last'), last'.actor, reqRole)
          THEN Succeeded(last')
          ELSE last'.code = 403 /\ tasks' = tasks
    ]_vars

\* the project operations reserved to the owner and to admins
ProjectWriteOps ==
  {"updateProject", "deleteProject", "addMember", "removeMember"}

\* C12: updateProject, deleteProject, addMember and removeMember on project
\* P succeed only when the actor is the owner of P or a global admin; every
\* other actor, a member of P with role manager included, gets 403 and the
\* projects and the tasks are unchanged.
C12_ProjectOpsOwnerOrAdminOnly ==
  [][(/\ Responds
      /\ last'.op \in ProjectWriteOps
      /\ hasProject(last'.target))
       => IF ownerOrAdmin(theProject(last'.target), last'.actor, reqRole)
          THEN last'.code # 403
          ELSE /\ last'.code = 403
               /\ projects' = projects
               /\ tasks' = tasks
    ]_vars

\* C12 witness: a member with role manager asked to replace the members of
\* the project and got 403.
C12_Witness ==
  /\ last.op = "updateProject"
  /\ last.val = "members"
  /\ last.target \in DOMAIN projects
  /\ someManager(projects[last.target], last.actor)
  /\ lastRole = "member"
  /\ last.code = 403

\* the user-management operations
UserAdminOps ==
  {"getUsers", "updateUserRole", "updateUserStatus", "deleteUser"}

\* C13: listing all users, changing a user's role, changing a user's active
\* status and deleting a user succeed only for a global admin, every other
\* actor gets 403 and no record changes; getUser and getUserDashboard for
\* user X answer 200 to X and to admins and 403 to every other actor.
C13_UserManagementAdminOnly ==
  [][Responds
       => /\ last'.op \in UserAdminOps
               => /\ Succeeded(last') => reqRole = "admin"
                  /\ reqRole # "admin"
                       => /\ last'.code = 403
                          /\ users' = users
                          /\ projects' = projects
                          /\ tasks' = tasks
          /\ (/\ last'.op \in {"getUser", "getUserDashboard"}
              /\ (Resumed \/ last'.target \in DOMAIN users))
               => last'.code =
                    IF last'.actor = last'.target \/ reqRole = "admin"
                    THEN 200 ELSE 403
    ]_vars

\* C13 witness: a user who is not admin asked for another user's profile
\* and got 403.
C13_Witness ==
  /\ last.op = "getUser"
  /\ last.target \in DOMAIN users
  /\ last.actor # last.target
  /\ lastRole = "member"
  /\ last.code = 403

\* C14: after a successful deleteProject on P (by the owner of P or an
\* admin) P no longer exists and no task of P exists, while every other
\* project and every task of every other project is unchanged.
C14_DeleteProjectCascade ==
  [][(Responds /\ last'.op = "deleteProject" /\ Succeeded(last'))
       => LET P == last'.target IN
          /\ hasProject(P)
          /\ ownerOrAdmin(theProject(P), last'.actor, reqRole)
          /\ P \notin DOMAIN projects'
          /\ \A t \in DOMAIN tasks' : tasks'[t].project # P
          /\ \A q \in DOMAIN projects' :
               q \in DOMAIN projects /\ projects'[q] = projects[q]
          /\ \A t \in DOMAIN tasks' :
               t \in DOMAIN tasks /\ tasks'[t] = tasks[t]
          /\ \A t \in DOMAIN tasks :
               tasks[t].project # P => t \in DOMAIN tasks'
          /\ users' = users
    ]_vars

\* C15: every request answered 400, 403 or 404 leaves all User, Project and
\* Task records exactly as they were before the request: it has written
\* nothing when the check rejects it.
C15_NoPartialMutation ==
  [][(Responds /\ last'.code \in {400, 403, 404})
       => /\ users' = users
          /\ projects' = projects
          /\ tasks' = tasks
          /\ Resumed => ~pending.wrote
    ]_vars

\* C15 witness: the owner or an admin asked to add a user who already is a
\* member; the last check of addMember answered 400.
C15_Witness ==
  /\ last.op = "addMember"
  /\ last.code = 400
  /\ last.target \in DOMAIN projects
  /\ someMember(projects[last.target], last.arg)
  /\ Len(projects[last.target].members) = 1

\* the operations that name a project by id, and those that name a task
ProjectTargetOps ==
  {"getProject", "updateProject", "deleteProject", "addMember",
   "removeMember", "createTask"}
TaskTargetOps ==
  {"getTask", "updateTask", "deleteTask", "updateTaskStatus", "addComment"}

\* a request whose body passes the handler's input validation
WellFormed(r) ==
  /\ r.op = "updateTaskStatus" => r.val \in Statuses
  /\ r.op = "addComment" => trim(r.val) # ""

\* C16: when the project or task a request names does not exist (when the
\* handler looks it up, in its first database call) the request is never
\* answered 403, whoever the actor is, and with well-formed input it is
\* answered 404.
C16_NotFoundBeforeForbidden ==
  [][(/\ Responds
      /\ ~Resumed
      /\ \/ /\ last'.op \in ProjectTargetOps
            /\ last'.target \notin DOMAIN projects
         \/ /\ last'.op \in TaskTargetOps
            /\ last'.target \notin DOMAIN tasks)
       => /\ last'.code # 403
          /\ WellFormed(last') => last'.code = 404
    ]_vars

\* C16 witness: a user without global role admin asked for a project that
\* does not exist, while other projects do, and got 404.
C16_Witness ==
  /\ last.op = "getProject"
  /\ last.target \notin DOMAIN projects
  /\ projects # << >>
  /\ lastRole = "member"
  /\ last.code = 404

\* C17: in every reachable state each user appears at most once in the
\* members list of any project.
C17_MembersUnique ==
  \A p \in DOMAIN projects :
    \A i, j \in 1..Len(projects[p].members) :
      i # j => projects[p].members[i].user # projects[p].members[j].user

\* every task that has an assignee has as assignee the owner or a current
\* member of the task's project
AssigneesParticipate ==
  \A t \in DOMAIN tasks :
    (tasks[t].assignee # NoUser /\ tasks[t].project \in DOMAIN projects)
      => participant(projects[tasks[t].project], tasks[t].assignee)

\* C18: every task that has an assignee has as assignee the owner or a
\* current member of the task's project, after any sequence of createTask,
\* updateTask, addMember, removeMember and deleteUser requests: none of
\* these requests leads from a state where this holds to one where it does
\* not.
C18_AssigneeAlwaysParticipant ==
  [][(/\ Responds
      /\ last'.op \in {"createTask", "updateTask", "addMember",
                       "removeMember", "deleteUser"}
      /\ AssigneesParticipate)
       => AssigneesParticipate'
    ]_vars

\* C19: no request of an actor with global role admin on a project or task
\* operation (view, update, delete, membership, task create, assign, status
\* change, field update, delete, comment) is answered 403.
C19_AdminNeverForbidden ==
  [][(/\ Responds
      /\ reqRole = "admin"
      /\ last'.op \in ProjectTargetOps \cup TaskTargetOps
                       \cup {"createProject", "getTasks"})
       => last'.code # 403
    ]_vars

\* C19 witness: an admin who is neither owner nor member of the project nor
\* assignee of the task changed the task's status.
C19_Witness ==
  /\ last.op = "updateTaskStatus"
  /\ last.code = 200
  /\ lastRole = "admin"
  /\ last.target \in DOMAIN tasks
  /\ tasks[last.target].assignee # last.actor
  /\ tasks[last.target].project \in DOMAIN projects
  /\ ~participant(projects[tasks[last.target].project], last.actor)

\* the step runs the push and save of the addComment request it answers
PushesNow == ~Resumed \/ pending.pc <= 3

\* C20: an addComment request on task T with non-empty text is allowed if
\* and only if the actor is the owner or a member of T's project or a global
\* admin; the comment is then appended, and on denial (403) T's comments
\* are unchanged.
C20_CommentIffCanView ==
  [][(/\ Responds
      /\ last'.op = "addComment"
      /\ trim(last'.val) # ""
      /\ onTask(last'))
       => LET t == last'.target IN
          IF canView(theTaskProject(t), last'.actor, reqRole)
          THEN /\ last'.code = 200
               /\ t \in DOMAIN tasks'
               /\ tasks'[t].comments =
                    IF PushesNow
                    THEN Append(tasks[t].comments,
                                [user |-> last'.actor,
                                 text |-> trim(last'.val)])
                    ELSE tasks[t].comments
          ELSE /\ last'.code = 403
               /\ tasks'[t].comments = tasks[t].comments
    ]_vars

\* C20 witness: a plain member of the project commented on a task.
C20_Witness ==
  /\ last.op = "addComment"
  /\ last.code = 200
  /\ last.target \in DOMAIN tasks
  /\ tasks[last.target].project \in DOMAIN projects
  /\ plainMember(projects[tasks[last.target].project], last.actor, lastRole)
  /\ Len(tasks[last.target].comments) = 1
  /\ tasks[last.target].comments[1].user = last.actor

\* C21: once created, a project's owner never changes and a task's project
\* and createdBy never change, whatever request is served.
C21_OwnerProjectCreatorImmutable ==
  [][/\ \A p \in DOMAIN projects \cap DOMAIN projects' :
          projects'[p].owner = projects[p].owner
     /\ \A t \in DOMAIN tasks \cap DOMAIN tasks' :
          /\ tasks'[t].project = tasks[t].project
          /\ tasks'[t].createdBy = tasks[t].createdBy
    ]_vars

\* the request whose handler runs in the step: the one the step answers,
\* or the one it suspends
Running == IF pending.op = "none" /\ pending'.op # "none" THEN pending'
           ELSE last'

\* the step runs the push and save of a successful addComment request
Pushes ==
  \/ /\ pending.op = "none"
     /\ pending'.op = "addComment"
     /\ pending'.pc = 4
  \/ /\ Responds
     /\ last'.op = "addComment"
     /\ Succeeded(last')
     /\ PushesNow

\* C22: a task's comments list is append-only: a successful addComment
\* appends exactly one entry at the end, with the actor as author and the
\* trimmed, non-empty text; every other request leaves the comments of every
\* task that still exists as they were, and a task disappears only by
\* deleteTask, deleteProject or deleteUser.
C22_CommentsAppendOnly ==
  [][/\ \A t \in DOMAIN tasks \cap DOMAIN tasks' :
          IF Pushes /\ Running.target = t
          THEN /\ trim(Running.val) # ""
               /\ tasks'[t].comments =
                    Append(tasks[t].comments,
                           [user |-> Running.actor,
                            text |-> trim(Running.val)])
          ELSE tasks'[t].comments = tasks[t].comments
     /\ DOMAIN tasks \subseteq DOMAIN tasks'
          \/ Running.op \in {"deleteTask", "deleteProject", "deleteUser"}
    ]_vars

\* C22 witness: an addComment request with text "x" was held before its
\* save while another request added the comment "y" to the same task; it
\* succeeded, and the task has the comment "y" followed by the comment of
\* the request.
C22_Witness ==
  /\ last.op = "addComment"
  /\ last.code = 200
  /\ last.val = "x"
  /\ steps = 2
  /\ last.target \in DOMAIN tasks
  /\ Len(tasks[last.target].comments) = 2
  /\ tasks[last.target].comments[1].text = "y"
  /\ tasks[last.target].comments[2] = [user |-> last.actor, text |-> "x"]

\* C23: there is no enforced status transition graph: for the task's
\* assignee, the project owner and a global admin a status-change request
\* that found the task in any status of the enum is allowed for any
\* requested status of the enum; the stored status becomes the requested
\* one and nothing else of the task changes (a request for the status it
\* found may write nothing).
C23_AnyStatusToAnyStatus ==
  [][\A from \in Statuses, to \in Statuses :
       (/\ Responds
        /\ ChangesStatus(last')
        /\ theTask(last'.target).status = from
        /\ last'.val = to
        /\ \/ theTask(last'.target).assignee = last'.actor
           \/ theTaskProject(last'.target).owner = last'.actor
           \/ reqRole = "admin")
         => /\ last'.code = 200
            /\ \/ tasks' = [tasks EXCEPT ![last'.target].status = to]
               \/ to = from /\ tasks' = tasks
    ]_vars

\* C23 witness: the assignee of a task, neither owner of the project nor
\* admin, moved the task to done.
C23_Witness ==
  /\ last.op = "updateTaskStatus"
  /\ last.code = 200
  /\ last.val = "done"
  /\ last.target \in DOMAIN tasks
  /\ tasks[last.target].status = "done"
  /\ tasks[last.target].assignee = last.actor
  /\ tasks[last.target].project \in DOMAIN projects
  /\ plainMember(projects[tasks[last.target].project], last.actor, lastRole)

\* C24: a task's isOverdue is true exactly when the task has a dueDate, the
\* current time is after that dueDate and the status is not done; a task
\* with status done, and a task without dueDate, has isOverdue false.
C24_IsOverdue ==
  last.op = "isOverdue"
    => LET task == tasks[last.target] IN
       /\ last.val \in {"true", "false"}
       /\ last.val = "true"
            <=> /\ task.dueDate # NoDate
                /\ last.arg > task.dueDate
                /\ task.status # "done"
       /\ (task.status = "done" \/ task.dueDate = NoDate)
            => last.val = "false"

\* C24 witness: after status changes of which one was suspended at an await
\* while the others were served, a task with status done is read after its
\* dueDate: its isOverdue is false.
C24_Witness ==
  /\ last.op = "isOverdue"
  /\ steps > MaxUpdates
  /\ tasks[last.target].status = "done"
  /\ tasks[last.target].dueDate # NoDate
  /\ last.arg > tasks[last.target].dueDate
  /\ last.val = "false"

\* C25: a status-change request that carries a value outside the enum, sent
\* by an actor who may change the status, is rejected with 400 and leaves
\* the task unchanged, on PATCH /tasks/:id/status and on PUT /tasks/:id.
C25_InvalidStatusIs400 ==
  [][(/\ Responds
      /\ last'.op \in {"updateTaskStatus", "updateTask"}
      /\ last'.val = "bogus"
      /\ onTask(last')
      /\ \/ theTask(last'.target).assignee = last'.actor
         \/ theTaskProject(last'.target).owner = last'.actor
         \/ reqRole = "admin")
       => /\ last'.code = 400
          /\ tasks' = tasks
    ]_vars

\* every task refers to an existing project
NoOrphanTask ==
  \A t \in DOMAIN tasks : tasks[t].project \in DOMAIN projects

\* C26: when requests interleave at their await points, every task still
\* refers to an existing project whenever no request is in flight: a
\* response of a route after which no request is in flight never leaves a
\* task whose project does not exist, when there was none before.
C26_NoOrphanTask ==
  [][(Responds /\ pending'.op = "none" /\ NoOrphanTask) => NoOrphanTask'
    ]_vars

\* some user has the global role admin
AdminExists(us) == \E u \in DOMAIN us : us[u].role = "admin"

\* C27: when some user has the global role admin, then after a request that
\* is executed atomically (served from its first line to its response with
\* no other request in between, and authorized against the actor's role at
\* that time) some user with the global role admin still exists; so it is
\* after any sequence of such requests (updateUserRole, updateUserStatus and
\* deleteUser are the ones that write User records).
C27_AdminRemains ==
  [][(Responds /\ ~Resumed /\ AdminExists(users)) => AdminExists(users')
    ]_vars

\* C27 witness: the default admin was demoted by another admin in a request
\* served with no other request in flight; that admin is still admin.
C27_Witness ==
  /\ last.op = "updateUserRole"
  /\ last.code = 200
  /\ last.target = 1
  /\ last.actor # 1
  /\ steps = 1
  /\ pending.op = "none"
  /\ users[1].role # "admin"
  /\ lastRole = "admin"

\* C28: every successful task status change is made by an actor who at
\* that moment can view the task's project (its owner, one of its current
\* members or a global admin).
C28_StatusChangerCanView ==
  [][(/\ Responds
      /\ ChangesStatus(last')
      /\ Succeeded(last')
      /\ tasks[last'.target].project \in DOMAIN projects)
       => canView(projects[tasks[last'.target].project], last'.actor,
                  reqRole)
    ]_vars

\* C29: for every actor, the tasks returned by getTasks without project
\* filter are exactly the tasks the same actor may read with getTask: the
\* tasks of the projects the actor owns or is a member of, and all tasks
\* when the actor is a global admin.
C29_ListMatchesGetTask ==
  [][(/\ Responds
      /\ ~Resumed
      /\ last'.op = "getTasks"
      /\ last'.target = NoId
      /\ last'.code = 200)
       => last'.result =
            {t \in DOMAIN tasks :
               getTaskCode(last'.actor, reqRole, tasks[t], projects) = 200}
    ]_vars


\* ---------------------------------------------------------------------
\* Server start-up and routing (server file: middleware stack of the
\* Express application).  A layer is one app.use / app.get / app.post /
\* app.patch call, in the order the calls are executed.
\* ---------------------------------------------------------------------
Methods == {"GET", "POST", "PUT", "PATCH", "DELETE"}

\* request paths, mount paths and route paths, split at "/"
Segments ==
  [pth \in {"/", "/api", "/api/health", "/api/nothing", "/api/auth",
            "/api/auth/login", "/api/auth/register", "/api/auth/me",
            "/api/auth/profile", "/api/tasks", "/api/tasks/1",
            "/api/tasks/1/status", "/api/tasks/1/comments",
            "/api/tasks/:id", "/api/tasks/:id/status",
            "/api/tasks/:id/comments", "/api/projects", "/api/projects/1",
            "/api/projects/1/members", "/api/projects/1/members/2",
            "/api/projects/:id", "/api/projects/:id/members",
            "/api/projects/:id/members/:memberId", "/api/users",
            "/api/users/1", "/api/users/1/role", "/api/users/1/status",
            "/api/users/1/dashboard", "/api/users/:id",
            "/api/users/:id/role", "/api/users/:id/status",
            "/api/users/:id/dashboard"} |->
     CASE pth = "/" -> <<>>
       [] pth = "/api" -> <<"api">>
       [] pth = "/api/health" -> <<"api", "health">>
       [] pth = "/api/nothing" -> <<"api", "nothing">>
       [] pth = "/api/auth" -> <<"api", "auth">>
       [] pth = "/api/auth/login" -> <<"api", "auth", "login">>
       [] pth = "/api/auth/register" -> <<"api", "auth", "register">>
       [] pth = "/api/auth/me" -> <<"api", "auth", "me">>
       [] pth = "/api/auth/profile" -> <<"api", "auth", "profile">>
       [] pth = "/api/tasks" -> <<"api", "tasks">>
       [] pth = "/api/tasks/1" -> <<"api", "tasks", "1">>
       [] pth = "/api/tasks/1/status" -> <<"api", "tasks", "1", "status">>
       [] pth = "/api/tasks/1/comments" -> <<"api", "tasks", "1", "comments">>
       [] pth = "/api/tasks/:id" -> <<"api", "tasks", ":id">>
       [] pth = "/api/tasks/:id/status" -> <<"api", "tasks", ":id", "status">>
       [] pth = "/api/tasks/:id/comments" -> <<"api", "tasks", ":id", "comments">>
       [] pth = "/api/projects" -> <<"api", "projects">>
       [] pth = "/api/projects/1" -> <<"api", "projects", "1">>
       [] pth = "/api/projects/1/members" -> <<"api", "projects", "1", "members">>
       [] pth = "/api/projects/1/members/2" -> <<"api", "projects", "1", "members", "2">>
       [] pth = "/api/projects/:id" -> <<"api", "projects", ":id">>
       [] pth = "/api/projects/:id/members" -> <<"api", "projects", ":id", "members">>
       [] pth = "/api/projects/:id/members/:memberId" -> <<"api", "projects", ":id", "members", ":memberId">>
       [] pth = "/api/users" -> <<"api", "users">>
       [] pth = "/api/users/1" -> <<"api", "users", "1">>
       [] pth = "/api/users/1/role" -> <<"api", "users", "1", "role">>
       [] pth = "/api/users/1/status" -> <<"api", "users", "1", "status">>
       [] pth = "/api/users/1/dashboard" -> <<"api", "users", "1", "dashboard">>
       [] pth = "/api/users/:id" -> <<"api", "users", ":id">>
       [] pth = "/api/users/:id/role" -> <<"api", "users", ":id", "role">>
       [] pth = "/api/users/:id/status" -> <<"api", "users", ":id", "status">>
       [] pth = "/api/users/:id/dashboard" -> <<"api", "users", ":id", "dashboard">>]

RequestPaths ==
  {"/", "/api", "/api/health", "/api/nothing", "/api/auth/login",
   "/api/auth/register", "/api/auth/me", "/api/auth/profile",
   "/api/tasks", "/api/tasks/1", "/api/tasks/1/status",
   "/api/tasks/1/comments", "/api/projects", "/api/projects/1",
   "/api/projects/1/members", "/api/projects/1/members/2", "/api/users",
   "/api/users/1", "/api/users/1/role", "/api/users/1/status",
   "/api/users/1/dashboard"}

Layer(kind, method, pth, name) ==
  [kind |-> kind, method |-> method, path |-> pth, name |-> name]

\* the calls executed synchronously while the file is loaded; the calls in
\* the connectDB().then callback are not among them
SyncLayers ==
  << Layer("pass", "", "/", "helmet"),
     Layer("pass", "", "/", "cors"),
     Layer("pass", "", "/", "morgan"),
     Layer("pass", "", "/", "express.json"),
     Layer("pass", "", "/", "express.urlencoded"),
     Layer("route", "GET", "/api", "api"),
     Layer("route", "GET", "/api/health", "health"),
     Layer("error", "", "/", "errorMiddleware"),
     Layer("use", "", "*", "notFound") >>

\* mongoose.connection.readyState === 1
Routers ==
  << Layer("use", "", "/api/auth", "authRoutes"),
     Layer("use", "", "/api/tasks", "taskRoutes"),
     Layer("use", "", "/api/projects", "projectRoutes"),
     Layer("use", "", "/api/users", "userRoutes") >>

setupMockEndpoints ==
  << Layer("route", "POST", "/api/auth/login", "mockLogin"),
     Layer("route", "POST", "/api/auth/register", "mockRegister"),
     Layer("route", "GET", "/api/tasks", "mockGetTasks"),
     Layer("route", "GET", "/api/projects", "mockGetProjects"),
     Layer("route", "GET", "/api/users", "mockGetUsers"),
     Layer("route", "POST", "/api/tasks", "mockCreateTask"),
     Layer("route", "PATCH", "/api/tasks/:id/status", "mockUpdateStatus") >>

\* the routes of the routers, with the mount path in front:
\* router.post('/login', ...), router.route('/:id').get(...).put(...)
Route(method, pth) == [method |-> method, path |-> pth]

RouterRoutes(name) ==
  CASE name = "authRoutes" ->
         {Route("POST", "/api/auth/register"), Route("POST", "/api/auth/login"),
          Route("GET", "/api/auth/me"), Route("PUT", "/api/auth/profile")}
    [] name = "taskRoutes" ->
         {Route("GET", "/api/tasks"), Route("POST", "/api/tasks"),
          Route("GET", "/api/tasks/:id"), Route("PUT", "/api/tasks/:id"),
          Route("DELETE", "/api/tasks/:id"),
          Route("PATCH", "/api/tasks/:id/status"),
          Route("POST", "/api/tasks/:id/comments")}
    [] name = "projectRoutes" ->
         {Route("GET", "/api/projects"), Route("POST", "/api/projects"),
          Route("GET", "/api/projects/:id"), Route("PUT", "/api/projects/:id"),
          Route("DELETE", "/api/projects/:id"),
          Route("POST", "/api/projects/:id/members"),
          Route("DELETE", "/api/projects/:id/members/:memberId")}
    [] name = "userRoutes" ->
         {Route("GET", "/api/users"), Route("GET", "/api/users/:id"),
          Route("DELETE", "/api/users/:id"),
          Route("PUT", "/api/users/:id/role"),
          Route("PUT", "/api/users/:id/status"),
          Route("GET", "/api/users/:id/dashboard")}
    [] OTHER -> {}

\* route parameters
Params == {":id", ":memberId"}

isPathPrefix(pre, segs) ==
  /\ Len(pre) <= Len(segs)
  /\ \A i \in 1..Len(pre) : pre[i] = segs[i]

matchesRoute(pat, segs) ==
  /\ Len(pat) = Len(segs)
  /\ \A i \in 1..Len(pat) : pat[i] \in Params \/ pat[i] = segs[i]

\* a router ends the request when one of its routes matches method and
\* path; otherwise it calls next().  (The request carries a valid token:
\* router.use(protect) calls next().)
routerAnswers(name, method, pth) ==
  \E rt \in RouterRoutes(name) :
    rt.method = method /\ matchesRoute(Segments[rt.path], Segments[pth])

\* does the layer end the request?  Pass-through middleware calls next(),
\* an error handler is skipped while no error is pending.
layerHandles(layer, method, pth) ==
  CASE layer.kind = "use" ->
         \/ layer.path = "*"
         \/ /\ isPathPrefix(Segments[layer.path], Segments[pth])
            /\ routerAnswers(layer.name, method, pth)
    [] layer.kind = "route" ->
         layer.method = method /\ matchesRoute(Segments[layer.path], Segments[pth])
    [] OTHER -> FALSE

\* the first layer of the stack, in registration order, that ends the request
handlingLayer(stack, method, pth) ==
  LET hits == {i \in 1..Len(stack) : layerHandles(stack[i], method, pth)}
  IN IF hits = {} THEN "finalhandler"
     ELSE stack[CHOOSE i \in hits : \A j \in hits : i <= j].name

responseCode(name) ==
  CASE name \in {"notFound", "finalhandler"} -> 404
    [] name \in {"api", "health"} -> 200
    [] OTHER -> 0    \* the status the router's or mock endpoint's handler sends

\* node runs the file to its end: every synchronous app.use / app.get and
\* app.listen; connectDB() has been called and is awaiting mongoose.connect
Startup ==
  /\ app = NoServer
  /\ app' = [stack |-> SyncLayers, db |-> "connecting"]
  /\ UNCHANGED <<data, last, steps, pending>>

\* the connectDB().then callback: connectDB never rejects, it resolves with
\* the connection open or, after the catch, closed
ConnectDBThen(connected) ==
  /\ app.db = "connecting"
  /\ app' = IF connected
              THEN [stack |-> app.stack \o Routers, db |-> "connected"]
              ELSE [stack |-> app.stack \o setupMockEndpoints, db |-> "failed"]
  /\ UNCHANGED <<data, last, steps, pending>>

Dispatch(method, pth) ==
  /\ app.db # "none"
  /\ LET name == handlingLayer(app.stack, method, pth) IN
       last' = [Request(method, NoUser, NoId, NoId, pth, responseCode(name))
                  EXCEPT !.result = {name}]
  /\ UNCHANGED <<data, steps, pending, app>>

InitServer ==
  /\ SeedFresh
  /\ last = Request("none", NoUser, NoId, NoId, "", 0)
  /\ steps = 0
  /\ pending = NoRequest
  /\ app = NoServer

NextServer ==
  \/ Startup
  \/ \E connected \in BOOLEAN : ConnectDBThen(connected)
  \/ \E method \in Methods, pth \in RequestPaths : Dispatch(method, pth)

SpecServer == InitServer /\ [][NextServer]_vars

\* C30: when the database connection succeeded at startup, a request to a
\* path under /api/auth, /api/tasks, /api/projects or /api/users that the
\* router mounted on that path has a route for is handled by that router,
\* and in mock mode a request matching a mock endpoint is handled by that
\* endpoint; neither is answered by the catch-all 404 handler.
C30_RoutersBeforeNotFound ==
  [][(/\ app' = app
      /\ last' # last
      /\ last'.op \in Methods)
       => /\ app.db = "connected" =>
               \A i \in 1..Len(Routers) :
                 (/\ isPathPrefix(Segments[Routers[i].path],
                                  Segments[last'.val])
                  /\ routerAnswers(Routers[i].name, last'.op, last'.val))
                   => last'.result = {Routers[i].name}
          /\ app.db = "failed" =>
               \A i \in 1..Len(setupMockEndpoints) :
                 (/\ setupMockEndpoints[i].method = last'.op
                  /\ matchesRoute(Segments[setupMockEndpoints[i].path],
                                  Segments[last'.val]))
                   => last'.result = {setupMockEndpoints[i].name}
    ]_vars

====
